---- MODULE Spec2Model ----
(***************************************************************************)
(* Model of the pycose key model (src/pycose/keys/cosekey.py) and of the   *)
(* crypto dispatch layer (src/pycose/crypto.py).                           *)
(*                                                                         *)
(* Three specifications share the module:                                  *)
(*   KeySpec      - CoseKey objects, their setters and _check_key_conf     *)
(*   RegistrySpec - the key-type registry, record_kty and decode           *)
(*   CryptoSpec   - calc_tag / verify_tag / aead / key_wrap dispatch       *)
(***************************************************************************)
EXTENDS Integers, Sequences, FiniteSets, TLC

(***************************************************************************)
(* Bounds                                                                  *)
(***************************************************************************)
MaxAlg == 2   \* members of the algorithm enumeration a key may carry
MaxOp  == 2   \* members of KeyOps used
MaxCrv == 2   \* members of EllipticCurveType used
MaxKty == 3   \* key type identifiers a map may carry or a class may record
MaxKey == 2   \* distinct symmetric keys
MaxMsg == 2   \* distinct byte strings (messages, aad, nonces, plaintexts)

(***************************************************************************)
(* Values                                                                  *)
(***************************************************************************)
\* Enumeration members are their positive integer values; the values below
\* stand for what is no member.
None    == -1          \* Python None
NoAttr  == -2          \* the object has no such attribute
Invalid == -3          \* a value that is no member of the enumeration
NoPeer  == "NoPeer"    \* peer_key=None

Algs   == 1..MaxAlg
Ops    == 1..MaxOp
Curves == 1..MaxCrv

KeyIds == {"k1", "k2"}

\* A CoseKey object: _alg, _key_ops and, for the asymmetric variants, crv.
KeyStates == [alg : Algs \cup {None}, key_ops : Ops \cup {None},
              crv : Curves \cup {None, NoAttr}]

VARIABLES keys,    \* KeyIds -> KeyStates, the live key objects
          pre,     \* the key objects as they were before the last operation
          call,    \* the last operation on keys and its arguments
          err,     \* its outcome: "none" or the failure
          _KTY,    \* CoseKey._KTY, the key-type registry
          dec,     \* the last registry operation and its outcome
          made,    \* the last calc_tag_wrapper, aead_encrypt or key_wrap
                   \* call, its arguments and what it produced
          used     \* the last verify_tag_wrapper or aead_decrypt call made
                   \* on what `made` produced, and its outcome

vars == <<keys, pre, call, err, _KTY, dec, made, used>>
keyVars == <<keys, pre, call, err>>
regVars == <<_KTY, dec>>
cryptoVars == <<made, used>>

(***************************************************************************)
(* CoseKey setters (cosekey.py 157-183)                                    *)
(***************************************************************************)
\* alg.setter: None is stored as is, anything else must be a member.
alg_setter(k, new_alg) ==
    IF new_alg # None
    THEN IF new_alg \in Algs
         THEN [keys |-> [k EXCEPT !.alg = new_alg], err |-> "none"]
         ELSE [keys |-> k, err |-> "ValueError"]
    ELSE [keys |-> [k EXCEPT !.alg = None], err |-> "none"]

\* key_ops.setter
key_ops_setter(k, new_key_ops) ==
    IF new_key_ops # None /\ new_key_ops \notin Ops
    THEN [keys |-> k, err |-> "ValueError"]
    ELSE [keys |-> [k EXCEPT !.key_ops = new_key_ops], err |-> "none"]

(***************************************************************************)
(* CoseKey._check_key_conf (cosekey.py 204-249), one operator per block of *)
(* the method.  A block receives [keys, err]; once err is set the          *)
(* exception has left the method and the later blocks do nothing.          *)
(***************************************************************************)
Fail(ks, e) == [keys |-> ks, err |-> e]
Ok(ks) == [keys |-> ks, err |-> "none"]

\* SelfAlg without the comparison of line 211: the argument overwrites alg
SelfAlg_NoCompare(st, self, algorithm) ==
    IF st.err # "none" THEN st
    ELSE LET ks == st.keys
             k1 == IF algorithm # None
                   THEN [ks EXCEPT ![self] = alg_setter(ks[self], algorithm).keys]
                   ELSE ks
         IN IF k1[self].alg = None THEN Fail(k1, "alg_none") ELSE Ok(k1)

\* lines 211-218: algorithm against self
SelfAlg(st, self, algorithm) ==
    IF st.err # "none" THEN st
    ELSE LET ks == st.keys IN
         IF ks[self].alg # None /\ algorithm # None /\ ks[self].alg # algorithm
         THEN Fail(ks, "alg_mismatch")
         ELSE LET k1 == IF algorithm # None
                        THEN [ks EXCEPT ![self] = alg_setter(ks[self], algorithm).keys]
                        ELSE ks
              IN IF k1[self].alg = None THEN Fail(k1, "alg_none") ELSE Ok(k1)

\* PeerAlg without the assignment of line 224: the peer is compared only
PeerAlg_NoPropagate(st, self, peer) ==
    IF st.err # "none" \/ peer = NoPeer THEN st
    ELSE LET ks == st.keys IN
         IF ks[peer].alg # None /\ ks[self].alg # ks[peer].alg
         THEN Fail(ks, "peer_alg_mismatch")
         ELSE Ok(ks)

\* lines 220-224: algorithm against the peer
PeerAlg(st, self, peer) ==
    IF st.err # "none" \/ peer = NoPeer THEN st
    ELSE LET ks == st.keys IN
         IF ks[peer].alg # None /\ ks[self].alg # ks[peer].alg
         THEN Fail(ks, "peer_alg_mismatch")
         ELSE Ok([ks EXCEPT ![peer] = alg_setter(ks[peer], ks[self].alg).keys])

\* lines 226-231: curve against self, only when self has a crv attribute
SelfCrv(st, self, curve) ==
    IF st.err # "none" \/ st.keys[self].crv = NoAttr THEN st
    ELSE LET ks == st.keys IN
         IF ks[self].crv # None /\ curve # None /\ ks[self].crv # curve
         THEN Fail(ks, "crv_mismatch")
         ELSE IF curve # None
              THEN Ok([ks EXCEPT ![self].crv = curve])
              ELSE Ok(ks)

\* lines 233-237: curve against the peer; reading crv on a key without the
\* attribute raises AttributeError
PeerCrv(st, self, peer) ==
    IF st.err # "none" \/ peer = NoPeer THEN st
    ELSE LET ks == st.keys IN
         IF ks[peer].crv = NoAttr \/ ks[self].crv = NoAttr
         THEN Fail(ks, "AttributeError")
         ELSE IF ks[peer].crv # None /\ ks[self].crv # ks[peer].crv
              THEN Fail(ks, "peer_crv_mismatch")
              ELSE Ok([ks EXCEPT ![peer].crv = ks[self].crv])

\* lines 239-243: key operation against self
SelfOps(st, self, key_operation) ==
    IF st.err # "none" THEN st
    ELSE LET ks == st.keys IN
         IF ks[self].key_ops # None /\ key_operation # None
            /\ ks[self].key_ops # key_operation
         THEN Fail(ks, "CoseIllegalKeyOps")
         ELSE IF key_operation # None
              THEN Ok([ks EXCEPT ![self] = key_ops_setter(ks[self], key_operation).keys])
              ELSE Ok(ks)

\* lines 245-249: key operation against the peer
PeerOps(st, self, peer) ==
    IF st.err # "none" \/ peer = NoPeer THEN st
    ELSE LET ks == st.keys IN
         IF ks[peer].key_ops # None /\ ks[self].key_ops # ks[peer].key_ops
         THEN Fail(ks, "peer_ops_mismatch")
         ELSE Ok([ks EXCEPT ![peer] = key_ops_setter(ks[peer], ks[self].key_ops).keys])

\* the whole method, in the order of the source
_check_key_conf(ks, self, algorithm, key_operation, peer, curve) ==
    PeerOps(SelfOps(PeerCrv(SelfCrv(PeerAlg(SelfAlg(Ok(ks), self, algorithm),
                                            self, peer),
                                    self, curve),
                            self, peer),
                    self, key_operation),
            self, peer)

(***************************************************************************)
(* KeySpec                                                                 *)
(***************************************************************************)
NoCall == [op |-> "init"]

\* CoseKey.__init__ (78-83) runs the setters on the caller's values, so a
\* fresh key holds any valid combination.
KeyInit ==
    /\ keys \in [KeyIds -> KeyStates]
    /\ pre = keys
    /\ call = NoCall
    /\ err = "none"

\* The caller is either about to make a call (call = NoCall) or holds the
\* outcome of the call it made.
Ready == call = NoCall

SetAlg ==
    /\ Ready
    /\ \E k \in KeyIds, v \in Algs \cup {None, Invalid} :
        LET r == alg_setter(keys[k], v) IN
        /\ pre' = keys
        /\ keys' = [keys EXCEPT ![k] = r.keys]
        /\ err' = r.err
        /\ call' = [op |-> "set_alg", key |-> k, value |-> v]

SetKeyOps ==
    /\ Ready
    /\ \E k \in KeyIds, v \in Ops \cup {None, Invalid} :
        LET r == key_ops_setter(keys[k], v) IN
        /\ pre' = keys
        /\ keys' = [keys EXCEPT ![k] = r.keys]
        /\ err' = r.err
        /\ call' = [op |-> "set_key_ops", key |-> k, value |-> v]

CheckKeyConf ==
    /\ Ready
    /\ \E self \in KeyIds, peer \in KeyIds \cup {NoPeer},
       algorithm \in Algs \cup {None}, key_operation \in Ops \cup {None},
       curve \in Curves \cup {None} :
        /\ peer # self
        \* peer_key is an EC2 or OKP key (line 207) and is paired with one
        /\ peer # NoPeer => keys[self].crv # NoAttr /\ keys[peer].crv # NoAttr
        /\ LET r == _check_key_conf(keys, self, algorithm, key_operation, peer, curve) IN
           /\ pre' = keys
           /\ keys' = r.keys
           /\ err' = r.err
           /\ call' = [op |-> "check_key_conf", self |-> self, peer |-> peer,
                       algorithm |-> algorithm, key_operation |-> key_operation,
                       curve |-> curve]

\* the caller has seen the outcome (the return or the exception) and goes on
Return ==
    /\ ~Ready
    /\ call' = NoCall
    /\ err' = "none"
    /\ pre' = keys
    /\ UNCHANGED keys

\* the variables of the other two specifications, at rest
RegIdle == _KTY = <<>> /\ dec = NoCall
CryptoIdle == made = NoCall /\ used = NoCall
KeyIdle == keys = <<>> /\ pre = <<>> /\ call = NoCall /\ err = "none"

KeyNext ==
    \/ SetAlg /\ UNCHANGED <<regVars, cryptoVars>>
    \/ SetKeyOps /\ UNCHANGED <<regVars, cryptoVars>>
    \/ CheckKeyConf /\ UNCHANGED <<regVars, cryptoVars>>
    \/ Return /\ UNCHANGED <<regVars, cryptoVars>>

KeySpecInit == KeyInit /\ RegIdle /\ CryptoIdle

KeySpec == KeySpecInit /\ [][KeyNext]_vars

(***************************************************************************)
(* Key-type registry (cosekey.py 68, 85-114)                               *)
(***************************************************************************)
KtyIds == 1..MaxKty
\* classes a caller may hand to the decorator; the first three derive from
\* CoseKey
Variants == {"OKP", "EC2", "Symmetric"}
Classes == Variants \cup {"NotACoseKey"}
Unregistered == "Unregistered"     \* kty_id is no key of _KTY

\* a received map: its KTY entry (None: the map has none); the other
\* entries are left to the variant
ReceivedMaps == [kty : KtyIds \cup {None}]

\* what the registered class's from_cose_key_obj does with the map
FactoryOutcomes == {"returns", "KeyError", "OtherError"}

Result(kind, cls, map) == [kind |-> kind, cls |-> cls, map |-> map]

\* record_kty(kty_id)(the_class), lines 85-101
record_kty(registry, kty_id, the_class) ==
    IF the_class \notin Variants
    THEN [registry |-> registry, res |-> Result("ValueError", the_class, [kty |-> kty_id])]
    ELSE [registry |-> [registry EXCEPT ![kty_id] = the_class],
          res |-> Result("class", the_class, [kty |-> kty_id])]

\* decode that falls back to the EC2 variant for an unknown key type
decode_Fallback(registry, received, outcome) ==
    LET cls == IF received.kty = None THEN "EC2"
               ELSE IF registry[received.kty] = Unregistered THEN "EC2"
               ELSE registry[received.kty]
    IN CASE outcome = "returns" -> Result("instance", cls, received)
         [] outcome = "KeyError" -> Result("KeyTypeUnknown", cls, received)
         [] OTHER -> Result("OtherError", cls, received)

\* decode(received), lines 103-114: any KeyError raised inside the try,
\* by either lookup or by the variant, is raised again as the KeyError
\* "Key type identifier is not recognized"
decode(registry, received, outcome) ==
    IF received.kty = None THEN Result("KeyTypeUnknown", Unregistered, received)
    ELSE IF registry[received.kty] = Unregistered
    THEN Result("KeyTypeUnknown", Unregistered, received)
    ELSE LET cls == registry[received.kty] IN
         CASE outcome = "returns" -> Result("instance", cls, received)
           [] outcome = "KeyError" -> Result("KeyTypeUnknown", cls, received)
           [] OTHER -> Result("OtherError", cls, received)

RegInit ==
    /\ _KTY = [k \in KtyIds |-> Unregistered]
    /\ dec = NoCall

RecordKty ==
    \E kty_id \in KtyIds, the_class \in Classes :
        LET r == record_kty(_KTY, kty_id, the_class) IN
        /\ _KTY' = r.registry
        /\ dec' = [op |-> "record_kty", kty_id |-> kty_id, res |-> r.res,
                   outcome |-> "returns"]

Decode ==
    \E received \in ReceivedMaps, outcome \in FactoryOutcomes :
        /\ dec' = [op |-> "decode", kty_id |-> received.kty,
                   res |-> decode(_KTY, received, outcome), outcome |-> outcome]
        /\ UNCHANGED _KTY

RegNext ==
    \/ RecordKty /\ UNCHANGED <<keyVars, cryptoVars>>
    \/ Decode /\ UNCHANGED <<keyVars, cryptoVars>>

RegistrySpecInit == RegInit /\ KeyIdle /\ CryptoIdle

RegistrySpec == RegistrySpecInit /\ [][RegNext]_vars

Decoded == dec.op = "decode"
Registered(kty_id) == kty_id # None /\ _KTY[kty_id] # Unregistered

\* C8: in any state of the registry, decode of a map whose KTY is absent or
\* has no registered variant fails with KeyTypeUnknown; when a variant is
\* registered for the KTY value, decode hands the map to that variant and
\* returns what the variant returns.
C8_DecodeByRegistry ==
    Decoded =>
        /\ ~Registered(dec.kty_id) => dec.res.kind = "KeyTypeUnknown"
        /\ (Registered(dec.kty_id) /\ dec.outcome = "returns")
               => dec.res = Result("instance", _KTY[dec.kty_id], [kty |-> dec.kty_id])

\* a map was decoded by the variant registered for its KTY
C8_Witness ==
    /\ Decoded /\ Registered(dec.kty_id)
    /\ dec.res.kind = "instance" /\ dec.res.cls = _KTY[dec.kty_id]

(***************************************************************************)
(* Crypto dispatch (crypto.py)                                             *)
(***************************************************************************)
\* aes_key_wraps, line 17
aes_key_wraps == {"A128KW", "A192KW", "A256KW"}

\* HMAC, lines 19-24: member -> hash
HMAC == [a \in {"HMAC_256_64", "HMAC_256_256", "HMAC_384_384", "HMAC_512_512"} |->
            CASE a = "HMAC_384_384" -> "SHA384"
              [] a = "HMAC_512_512" -> "SHA512"
              [] OTHER -> "SHA256"]

\* CMAC, lines 26-31: member -> block cipher
CMAC == [a \in {"AES_MAC_256_64", "AES_MAC_128_64", "AES_MAC_256_128",
                "AES_MAC_128_128"} |-> "AES"]

\* AEAD, lines 33-45: member -> (primitive, tag length)
AEAD == [a \in {"A128GCM", "A192GCM", "A256GCM",
                "AES_CCM_16_64_128", "AES_CCM_16_64_256",
                "AES_CCM_64_64_128", "AES_CCM_64_64_256",
                "AES_CCM_16_128_128", "AES_CCM_16_128_256",
                "AES_CCM_64_128_256", "AES_CCM_64_128_128"} |->
            CASE a \in {"A128GCM", "A192GCM", "A256GCM"} -> <<"AESGCM", 16>>
              [] a \in {"AES_CCM_16_64_128", "AES_CCM_16_64_256",
                        "AES_CCM_64_64_128", "AES_CCM_64_64_256"} -> <<"AESCCM", 8>>
              [] OTHER -> <<"AESCCM", 16>>]

\* The members of CoseAlgorithm the module names, and one it does not
\* (a signature algorithm).  A member is written by its name.
CoseAlgorithm == aes_key_wraps \cup {"DIRECT", "ES256"} \cup DOMAIN HMAC
                 \cup DOMAIN CMAC \cup DOMAIN AEAD

\* The string literals lines 95, 105, 116 and 125 compare the algorithm
\* with.  They are str objects, no members of the enumeration, so they
\* equal no member and are keys of no table.
StrAesMac25664 == "AES-MAC-256/64"
StrHs25664 == "HS256/64"

\* what a caller may pass as algorithm
Algorithms == CoseAlgorithm \cup {StrAesMac25664, StrHs25664}

SymKeys == 1..MaxKey
Bytes == 1..MaxMsg

\* digest size in bytes of the library primitive
DigestLen(primitive) ==
    CASE primitive = "SHA256" -> 32
      [] primitive = "SHA384" -> 48
      [] primitive = "SHA512" -> 64
      [] primitive = "AES" -> 16

\* c.finalize() / h.finalize(): the MAC of the library primitive, byte i of
\* it written <<primitive, key, message, i>>
Digest(primitive, key, to_be_maced) ==
    [i \in 1..DigestLen(primitive) |-> <<primitive, key, to_be_maced, i>>]

\* digest[:8]
First8(digest) == SubSeq(digest, 1, 8)

Produced(kind, value) == [kind |-> kind, value |-> value]

\* calc_tag_wrapper, lines 80-112
calc_tag_wrapper(key, to_be_maced, algorithm) ==
    IF algorithm \in DOMAIN CMAC
    THEN LET digest == Digest(CMAC[algorithm], key, to_be_maced) IN
         IF algorithm = StrAesMac25664
         THEN Produced("tag", First8(digest))
         ELSE Produced("tag", digest)
    ELSE IF algorithm \in DOMAIN HMAC
    THEN LET digest == Digest(HMAC[algorithm], key, to_be_maced) IN
         IF algorithm = StrHs25664
         THEN Produced("tag", First8(digest))
         ELSE Produced("tag", digest)
    ELSE Produced("CoseUnsupportedMAC", <<>>)

\* verify_tag_wrapper, lines 115-135; h.verify raises InvalidSignature
verify_tag_wrapper(key, tag, to_be_maced, algorithm) ==
    IF algorithm # StrHs25664
    THEN IF algorithm \notin DOMAIN HMAC
         THEN "CoseUnsupportedMAC"
         ELSE IF Digest(HMAC[algorithm], key, to_be_maced) = tag
              THEN "True"
              ELSE "InvalidSignature"
    ELSE IF algorithm \notin DOMAIN HMAC
         THEN "CoseUnsupportedMAC"
         ELSE IF First8(Digest(HMAC[algorithm], key, to_be_maced)) # tag
              THEN "CoseInvalidTag"
              ELSE "True"

\* aead_cipher.encrypt(nonce, plaintext, aad) of the library primitive
\* built with tag_length: the sealed box, written by what went into it
Seal(primitive, tag_length, key, nonce, plaintext, aad) ==
    [primitive |-> primitive, tag_length |-> tag_length, key |-> key,
     nonce |-> nonce, plaintext |-> plaintext, aad |-> aad]

\* aead_encrypt, lines 48-59
aead_encrypt(key, aad, plaintext, algorithm, nonce) ==
    IF algorithm \notin DOMAIN AEAD
    THEN Produced("CoseUnsupportedEnc", <<>>)
    ELSE LET primitive == AEAD[algorithm][1]
             tag_length == AEAD[algorithm][2]
         IN Produced("ciphertext",
                     Seal(primitive, tag_length, key, nonce, plaintext, aad))

\* aead_decrypt, lines 62-70: line 64 binds the table's (class, tag length)
\* pair to primitive and line 65 calls the pair, which raises TypeError
aead_decrypt(key, aad, ciphertext, algorithm, nonce) ==
    IF algorithm \notin DOMAIN AEAD
    THEN Produced("CoseUnsupportedEnc", <<>>)
    ELSE Produced("TypeError", <<>>)

\* key_wrap, lines 73-77; a call that takes neither branch returns None
key_wrap(alg, kek, plaintext_key) ==
    IF alg \in aes_key_wraps
    THEN Produced("wrapped", <<"aes_key_wrap", kek, plaintext_key>>)
    ELSE IF alg = "DIRECT"
    THEN Produced("bytes", <<>>)
    ELSE Produced("None", <<>>)

CryptoInit == made = NoCall /\ used = NoCall

\* The functions keep no state: a caller produces a value, may hand it to
\* the receiving function, and is done with both.
Idle == made = NoCall

CalcTag ==
    /\ Idle
    /\ \E key \in SymKeys, to_be_maced \in Bytes, algorithm \in Algorithms :
        /\ made' = [op |-> "calc_tag", key |-> key, data |-> to_be_maced,
                    aad |-> 0, nonce |-> 0, algorithm |-> algorithm,
                    res |-> calc_tag_wrapper(key, to_be_maced, algorithm)]
        /\ used' = NoCall

\* the receiver verifies the tag calc_tag_wrapper produced
VerifyTag ==
    /\ used = NoCall
    /\ made.op = "calc_tag" /\ made.res.kind = "tag"
    /\ \E key \in SymKeys, to_be_maced \in Bytes, algorithm \in Algorithms :
        used' = [op |-> "verify_tag", key |-> key, data |-> to_be_maced,
                 algorithm |-> algorithm,
                 res |-> Produced(verify_tag_wrapper(key, made.res.value,
                                                     to_be_maced, algorithm), <<>>)]
    /\ UNCHANGED made

AeadEncrypt ==
    /\ Idle
    /\ \E key \in SymKeys, aad \in Bytes, plaintext \in Bytes, nonce \in Bytes,
       algorithm \in Algorithms :
        /\ made' = [op |-> "aead_encrypt", key |-> key, data |-> plaintext,
                    aad |-> aad, nonce |-> nonce, algorithm |-> algorithm,
                    res |-> aead_encrypt(key, aad, plaintext, algorithm, nonce)]
        /\ used' = NoCall

\* the receiver decrypts the ciphertext aead_encrypt produced, with the aad
\* and nonce it was made with
AeadDecrypt ==
    /\ used = NoCall
    /\ made.op = "aead_encrypt" /\ made.res.kind = "ciphertext"
    /\ \E key \in SymKeys, algorithm \in Algorithms :
        used' = [op |-> "aead_decrypt", key |-> key, data |-> made.data,
                 algorithm |-> algorithm,
                 res |-> aead_decrypt(key, made.aad, made.res.value, algorithm,
                                      made.nonce)]
    /\ UNCHANGED made

KeyWrap ==
    /\ Idle
    /\ \E alg \in Algorithms, kek \in SymKeys, plaintext_key \in SymKeys :
        /\ made' = [op |-> "key_wrap", key |-> kek, data |-> plaintext_key,
                    aad |-> 0, nonce |-> 0, algorithm |-> alg,
                    res |-> key_wrap(alg, kek, plaintext_key)]
        /\ used' = NoCall

Discard ==
    /\ ~Idle
    /\ made' = NoCall /\ used' = NoCall

CryptoNext ==
    \/ CalcTag /\ UNCHANGED <<keyVars, regVars>>
    \/ VerifyTag /\ UNCHANGED <<keyVars, regVars>>
    \/ AeadEncrypt /\ UNCHANGED <<keyVars, regVars>>
    \/ AeadDecrypt /\ UNCHANGED <<keyVars, regVars>>
    \/ KeyWrap /\ UNCHANGED <<keyVars, regVars>>
    \/ Discard /\ UNCHANGED <<keyVars, regVars>>

CryptoSpecInit == CryptoInit /\ KeyIdle /\ RegIdle

CryptoSpec == CryptoSpecInit /\ [][CryptoNext]_vars

(***************************************************************************)
(* Properties of the crypto dispatch (checked under CryptoSpec)            *)
(***************************************************************************)
SupportedMAC == DOMAIN CMAC \cup DOMAIN HMAC
Truncated64 == {"HMAC_256_64", "AES_MAC_128_64", "AES_MAC_256_64"}

\* verify_tag_wrapper was called with the key, message and algorithm the tag
\* was calculated with
RoundTripMAC ==
    /\ used.op = "verify_tag"
    /\ used.key = made.key /\ used.data = made.data
    /\ used.algorithm = made.algorithm

\* C5: for every algorithm of the CMAC and HMAC tables, every key and every
\* message, verify_tag(key, calc_tag(key, msg, alg), msg, alg) succeeds.
C5_VerifyAcceptsCalcTag ==
    (RoundTripMAC /\ used.algorithm \in SupportedMAC) => used.res.kind = "True"

\* C6: calc_tag returns the first 8 bytes of the digest for the algorithms
\* designated 64-bit-truncated and the whole digest, of the primitive's
\* native length, for every other supported MAC algorithm.
C6_TagLength ==
    (made.op = "calc_tag" /\ made.algorithm \in SupportedMAC) =>
        LET primitive == IF made.algorithm \in DOMAIN CMAC
                         THEN CMAC[made.algorithm] ELSE HMAC[made.algorithm]
            digest == Digest(primitive, made.key, made.data)
        IN /\ made.res.kind = "tag"
           /\ made.algorithm \in Truncated64
                  => Len(made.res.value) = 8 /\ made.res.value = First8(digest)
           /\ made.algorithm \notin Truncated64
                  => Len(made.res.value) = DigestLen(primitive)

\* C7: for every algorithm of the AEAD table, decrypting what aead_encrypt
\* produced, with the same key, aad, algorithm and nonce, returns the
\* plaintext.
C7_DecryptReturnsPlaintext ==
    (/\ used.op = "aead_decrypt"
     /\ used.key = made.key /\ used.algorithm = made.algorithm
     /\ used.algorithm \in DOMAIN AEAD)
        => used.res.kind = "plaintext" /\ used.res.value = made.data

\* C9: key_wrap returns the AES key wrap for A128KW, A192KW and A256KW, the
\* empty byte string for direct key agreement, and fails with
\* UnsupportedKeyWrap for every other algorithm.
C9_KeyWrapOutcomes ==
    made.op = "key_wrap" =>
        /\ made.algorithm \in aes_key_wraps
               => made.res = Produced("wrapped", <<"aes_key_wrap", made.key, made.data>>)
        /\ made.algorithm = "DIRECT" => made.res = Produced("bytes", <<>>)
        /\ made.algorithm \notin aes_key_wraps \cup {"DIRECT"}
               => made.res.kind = "UnsupportedKeyWrap"

(***************************************************************************)
(* Properties of the key model (checked under KeySpec)                     *)
(***************************************************************************)
Called == call.op = "check_key_conf"
WithPeer == Called /\ call.peer # NoPeer

\* a held value and a requested one do not clash
Compatible(held, requested) == held = None \/ requested = None \/ held = requested
\* the value a field of self has after its block: the argument if given
Resolved(held, requested) == IF requested # None THEN requested ELSE held

\* the call's arguments for curve and key operation clash with nothing self
\* held before the call (a key without crv ignores the curve argument)
SelfAgrees ==
    /\ pre[call.self].crv = NoAttr \/ Compatible(pre[call.self].crv, call.curve)
    /\ Compatible(pre[call.self].key_ops, call.key_operation)

\* the peer's curve and key operation, where set, equal what self resolves to
PeerAgrees ==
    /\ pre[call.self].crv # NoAttr /\ pre[call.peer].crv # NoAttr
    /\ pre[call.peer].crv \in {None, Resolved(pre[call.self].crv, call.curve)}
    /\ pre[call.peer].key_ops \in
           {None, Resolved(pre[call.self].key_ops, call.key_operation)}

AlgHeld == Called /\ pre[call.self].alg # None

\* C1 as stated: for a key whose alg is A, a call with another algorithm B
\* fails with the algorithm mismatch, a call with algorithm None leaves alg
\* at A, and a call with algorithm A succeeds and leaves alg at A.
C1_AsStated ==
    AlgHeld =>
        /\ (call.algorithm # None /\ call.algorithm # pre[call.self].alg)
               => err = "alg_mismatch"
        /\ call.algorithm = None => keys[call.self].alg = pre[call.self].alg
        /\ call.algorithm = pre[call.self].alg
               => err = "none" /\ keys[call.self].alg = pre[call.self].alg

\* C1 amended: for a key whose alg is A, a call with another algorithm B
\* fails with the algorithm mismatch and changes nothing; a call with
\* algorithm None leaves alg at A; a call with algorithm A leaves alg at A,
\* never fails on the algorithm of self, and succeeds when no peer key is
\* given and the curve and key operation arguments agree with the key.
C1_AlgorithmAgainstHeld ==
    AlgHeld =>
        /\ (call.algorithm # None /\ call.algorithm # pre[call.self].alg)
               => err = "alg_mismatch" /\ keys = pre
        /\ call.algorithm = None => keys[call.self].alg = pre[call.self].alg
        /\ call.algorithm = pre[call.self].alg
               => /\ keys[call.self].alg = pre[call.self].alg
                  /\ err \notin {"alg_mismatch", "alg_none"}
                  /\ (call.peer = NoPeer /\ SelfAgrees) => err = "none"

\* a key holding an algorithm was called with a different one and was refused
C1_Witness ==
    /\ AlgHeld
    /\ call.algorithm # None /\ call.algorithm # pre[call.self].alg
    /\ err = "alg_mismatch"

BothAlgUnset ==
    /\ WithPeer
    /\ pre[call.self].alg = None /\ pre[call.peer].alg = None
    /\ call.algorithm # None

\* C2 as stated: for two keys that both have alg None and any algorithm X,
\* check_key_conf(algorithm=X, peer_key=other) succeeds and leaves alg at X
\* on both keys.
C2_AsStated ==
    BothAlgUnset =>
        /\ err = "none"
        /\ keys[call.self].alg = call.algorithm
        /\ keys[call.peer].alg = call.algorithm

\* C2 amended: for two keys that both have alg None and any algorithm X,
\* check_key_conf(algorithm=X, peer_key=other) leaves alg at X on both keys
\* and does not fail on the algorithm; it succeeds exactly when both keys
\* have a curve attribute and curve and key operation agree between the
\* arguments, self and the peer.
C2_BothAdoptAlgorithm ==
    BothAlgUnset =>
        /\ keys[call.self].alg = call.algorithm
        /\ keys[call.peer].alg = call.algorithm
        /\ err \notin {"alg_mismatch", "alg_none", "peer_alg_mismatch"}
        /\ err = "none" <=> (SelfAgrees /\ PeerAgrees)

\* two keys without algorithm were validated together and the call returned
C2_Witness ==
    /\ BothAlgUnset
    /\ err = "none"
    /\ keys[call.peer].alg = call.algorithm

Defined(k) == k.alg # None /\ k.crv \notin {None, NoAttr} /\ k.key_ops # None

\* C3: whenever check_key_conf returns without error for a key with a curve
\* attribute and a peer key, algorithm, curve and key operation are defined
\* on both keys and equal between them.
C3_DefinedAndConsistent ==
    (WithPeer /\ err = "none" /\ pre[call.self].crv # NoAttr) =>
        /\ Defined(keys[call.self]) /\ Defined(keys[call.peer])
        /\ keys[call.self] = keys[call.peer]

\* C4: once alg, key_ops or curve of a key holds a value, no operation
\* (setter or check_key_conf, as self or as peer) leaves it holding another
\* value: a conflicting reassignment is rejected.
C4_NeverContradicted ==
    \A k \in KeyIds :
        /\ (pre[k].alg # None /\ keys[k].alg # None) => keys[k].alg = pre[k].alg
        /\ (pre[k].key_ops # None /\ keys[k].key_ops # None)
               => keys[k].key_ops = pre[k].key_ops
        /\ (pre[k].crv \notin {None, NoAttr} /\ keys[k].crv # None)
               => keys[k].crv = pre[k].crv

MismatchErrors == {"alg_mismatch", "peer_alg_mismatch", "crv_mismatch",
                   "peer_crv_mismatch", "CoseIllegalKeyOps", "peer_ops_mismatch"}

\* C10: a check_key_conf call that fails on an algorithm, curve or key
\* operation mismatch (on self or against the peer) leaves alg, curve and
\* key_ops of both keys as they were before the call.
C10_FailureChangesNothing ==
    (Called /\ err \in MismatchErrors) => keys = pre

====
